---- MODULE Spec2Model ----
(***************************************************************************)
(* HealthFactAI: the fact ledger and the streak accounting of one users    *)
(* table (routers/user_facts.py, the streak service, database.py).         *)
(*                                                                         *)
(* Time is an integer count of half days since the epoch (UnitsPerDay      *)
(* units make a day).  datetime.utcnow() reads the instant, date.today()   *)
(* reads the local calendar date of the instant, which is the UTC instant  *)
(* shifted by the server's zone offset.  A date is its ordinal (the number *)
(* of its day); a stored text is a record that names its format, so that   *)
(* strftime and strptime are conversions and not the identity.             *)
(***************************************************************************)
EXTENDS Integers, Sequences, FiniteSets, TLC

VARIABLES
    users,      \* the committed users table: id -> row
    txn,        \* the open write transaction: its owner and its view of the table
    req,        \* the requests in flight: slot -> handler state
    clock,      \* the UTC instant, in units
    tz,         \* the server's zone offset, in units (fixed at start-up)
    snap,       \* history: the committed table when the calls in flight began
    appended,   \* history: id -> number of add_fact calls that returned 200
    fin,        \* the argument record of the pure function under check
    fout        \* its result

vars == <<users, txn, req, clock, tz, snap, appended, fin, fout>>

----------------------------------------------------------------------------
(* Bounds of the model.                                                    *)

MaxTime == 6
MaxFacts == 2
MaxStreakIn == 3
MaxDay == 5
MaxTimeConc == 4

(* Units of the clock per calendar day. *)
UnitsPerDay == 2

----------------------------------------------------------------------------
(* Values.                                                                 *)

(* Python's None where an int is expected (Optional[int]). *)
NoneInt == -1
(* Python's None where a str is expected (Optional[str]). *)
NoneStr == "<None>"

(* The rows of the users table (ids from AUTOINCREMENT), an id past the     *)
(* last row, and the identities the tokens carry.                           *)
UserIds == {1, 2}
MissingId == Cardinality(UserIds) + 1
Usernames == {"alice", "bob"}

(* The handler invocations that may be in flight, each with a connection    *)
(* of its own; NoReq: no connection holds the write lock.                   *)
Reqs == {1, 2}
FirstReq == CHOOSE r \in Reqs : \A q \in Reqs : r <= q
NoReq == FirstReq - 1

(* The zone offsets a server may run under, in units. *)
TzOffsets == {-1, 0, 1}

(* A stored last_activity_date: NULL, or a text.  kind "ymd" is a text in     *)
(* the format %Y-%m-%d of the date with ordinal day; kind "text" is any       *)
(* other non-empty text; kind "empty" is the empty text.                      *)
NullDate == [kind |-> "null", day |-> 0]
EmptyDate == [kind |-> "empty", day |-> 0]
BadDate == [kind |-> "text", day |-> 0]

(* A stored last_activity_date that sqlite hands back as a number: the      *)
(* column is declared DATE (database.py line 69), of NUMERIC affinity, so a *)
(* text that looks like a number, such as '20240101', is kept as one.  For  *)
(* kind "number" the field day holds the number itself.                     *)
NumDate == [kind |-> "number", day |-> 20240101]

(* The number 0 in the column: a value that is no text and is falsy. *)
NumZero == [kind |-> "number", day |-> 0]

(* A stored learned_at in the format %Y-%m-%dT%H:%M:%SZ of instant t. *)
TsStr(t) == [kind |-> "ts", t |-> t]

(* The calendar date (ordinal) of an instant. *)
DateOf(t) == t \div UnitsPerDay

(* datetime.utcnow() and date.today() on the server. *)
utcnow == clock
today == DateOf(clock + tz)

(* x or 0 *)
OrZero(x) == IF x = NoneInt THEN 0 ELSE x

Max(a, b) == IF a >= b THEN a ELSE b

----------------------------------------------------------------------------
(* The streak service.                                                     *)

(* date.strftime("%Y-%m-%d") *)
strftime_ymd(d) == [kind |-> "ymd", day |-> d]

dates_equal(d1, d2) == d1 = d2

(* Optional[date] as a set of at most one date. *)
parse_last_activity(raw) ==
    IF raw.kind \in {"null", "empty"} THEN {}
    ELSE IF raw.kind = "number" /\ raw.day = 0 THEN {}
    ELSE IF raw.kind = "ymd" THEN {raw.day}
    ELSE {}

(* Lines 10-15: a falsy value returns None at line 10; on any other value   *)
(* that is not a str strptime raises TypeError, and only ValueError is      *)
(* caught.                                                                  *)
parse_last_activity_raises(raw) == raw.kind = "number" /\ raw.day # 0

(* The same-day branch without its "or 1". *)
new_current_keep(current_streak, last_activity, tday) ==
    IF last_activity = {} THEN 1
    ELSE LET la == CHOOSE d \in last_activity : TRUE
             yesterday == tday - 1
         IN  IF dates_equal(la, tday) THEN current_streak
             ELSE IF dates_equal(la, yesterday) THEN current_streak + 1
             ELSE 1

(* The consecutive-day branch taken for any earlier day. *)
new_current_anygap(current_streak, last_activity, tday) ==
    IF last_activity = {} THEN 1
    ELSE LET la == CHOOSE d \in last_activity : TRUE
         IN  IF dates_equal(la, tday)
             THEN (IF current_streak = 0 THEN 1 ELSE current_streak)
             ELSE IF la < tday THEN current_streak + 1
             ELSE 1

(* The same-day branch taken for a later day too. *)
new_current_notbefore(current_streak, last_activity, tday) ==
    IF last_activity = {} THEN 1
    ELSE LET la == CHOOSE d \in last_activity : TRUE
             yesterday == tday - 1
         IN  IF la >= tday
             THEN (IF current_streak = 0 THEN 1 ELSE current_streak)
             ELSE IF dates_equal(la, yesterday) THEN current_streak + 1
             ELSE 1

(* Lines 33-41: current_streak is already "current_streak or 0". *)
new_current_of(current_streak, last_activity, tday) ==
    IF last_activity = {} THEN 1
    ELSE LET la == CHOOSE d \in last_activity : TRUE
             yesterday == tday - 1
         IN  IF dates_equal(la, tday)
             THEN (IF current_streak = 0 THEN 1 ELSE current_streak)
             ELSE IF dates_equal(la, yesterday) THEN current_streak + 1
             ELSE 1

(* new_longest without the max. *)
new_longest_stale(longest_streak, new_current) == longest_streak

(* Line 43. *)
new_longest_of(longest_streak, new_current) == Max(longest_streak, new_current)

compute_new_streak(current_streak, longest_streak, last_activity_raw, tday) ==
    LET cur == OrZero(current_streak)
        lng == OrZero(longest_streak)
        last_activity == parse_last_activity(last_activity_raw)
        new_current == new_current_of(cur, last_activity, tday)
    IN  [new_current |-> new_current,
         new_longest |-> new_longest_of(lng, new_current),
         new_last_activity |-> strftime_ymd(tday)]

----------------------------------------------------------------------------
(* The users table and the ledger.                                         *)

(* A stored facts_learned: kind "list" is the JSON text of the list items;   *)
(* "null" is NULL, "empty" the empty text, "garbage" a text json.loads       *)
(* rejects, "scalar" the JSON text of a value that is not a list.            *)
json_dumps(facts) == [kind |-> "list", items |-> facts]

(* Lines 48-55. *)
load_facts(raw) ==
    IF raw.kind \in {"null", "empty"} THEN <<>>
    ELSE IF raw.kind = "list" THEN raw.items
    ELSE <<>>

(* INSERT INTO users (username, password): the column defaults. *)
NewUser(name) ==
    [username |-> name,
     facts_learned |-> json_dumps(<<>>),
     total_facts_count |-> 0,
     current_streak |-> 0,
     longest_streak |-> 0,
     last_activity_date |-> NullDate]

FreshTable == [u \in UserIds |-> NewUser(IF u = 1 THEN "alice" ELSE "bob")]

(* Lines 32-36: the row, as a set of at most one user. *)
fetch_user_by_id(tbl, user_id) ==
    IF user_id \in DOMAIN tbl
    THEN {[id |-> user_id, username |-> tbl[user_id].username]}
    ELSE {}

(* Lines 39-45: the status the guard ends with (200: the user is returned). *)
ensure_user_access(tbl, user_id, username_from_token) ==
    LET user == fetch_user_by_id(tbl, user_id)
    IN  IF user = {} THEN 404
        ELSE IF (CHOOSE u \in user : TRUE).username # username_from_token THEN 403
        ELSE 200

(* Lines 58-60: UPDATE users SET facts_learned = ? WHERE id = ?. *)
save_facts(tbl, user_id, facts) ==
    IF user_id \in DOMAIN tbl
    THEN [tbl EXCEPT ![user_id].facts_learned = json_dumps(facts)]
    ELSE tbl

(* The UPDATE without last_activity_date. *)
update_counters_undated(tbl, user_id, total, streak) ==
    IF user_id \in DOMAIN tbl
    THEN [tbl EXCEPT ![user_id].total_facts_count = total,
                     ![user_id].current_streak = streak.new_current,
                     ![user_id].longest_streak = streak.new_longest]
    ELSE tbl

(* The UPDATE without its WHERE clause: every row is written. *)
update_counters_everyone(tbl, user_id, total, streak) ==
    [u \in DOMAIN tbl |->
        [tbl[u] EXCEPT !.total_facts_count = total,
                       !.current_streak = streak.new_current,
                       !.longest_streak = streak.new_longest,
                       !.last_activity_date = streak.new_last_activity]]

(* Lines 89-92: UPDATE users SET total_facts_count = ?, ... WHERE id = ?. *)
update_counters(tbl, user_id, total, streak) ==
    IF user_id \in DOMAIN tbl
    THEN [tbl EXCEPT ![user_id].total_facts_count = total,
                     ![user_id].current_streak = streak.new_current,
                     ![user_id].longest_streak = streak.new_longest,
                     ![user_id].last_activity_date = streak.new_last_activity]
    ELSE tbl

(* Line 83: facts.append(new_item). *)
append_item(facts, new_item) == Append(facts, new_item)

(* The counter written back without the increment. *)
next_total_same(total_facts_count) == OrZero(total_facts_count)

(* Line 87: (row[1] or 0) + 1. *)
next_total(total_facts_count) == OrZero(total_facts_count) + 1

----------------------------------------------------------------------------
(* The readers.                                                            *)

LimitMin == 1
LimitMax == 500

(* datetime.min, below every instant. *)
DatetimeMin == -1

(* Lines 125-131: the sort key of a stored learned_at. *)
parse_dt(s) == IF s.kind = "ts" THEN s.t ELSE DatetimeMin

(* Lines 122-123. *)
filter_by_category(facts, category) ==
    IF category = NoneStr \/ category = ""
    THEN facts
    ELSE SelectSeq(facts, LAMBDA f : f.category = category)

(* The sort without reverse=True. *)
RECURSIVE insert_asc(_, _)
insert_asc(s, x) ==
    IF s = <<>> THEN <<x>>
    ELSE IF parse_dt(Head(s).learned_at) <= parse_dt(x.learned_at)
         THEN <<Head(s)>> \o insert_asc(Tail(s), x)
         ELSE <<x>> \o s

RECURSIVE insert_desc(_, _)
insert_desc(s, x) ==
    IF s = <<>> THEN <<x>>
    ELSE IF parse_dt(Head(s).learned_at) >= parse_dt(x.learned_at)
         THEN <<Head(s)>> \o insert_desc(Tail(s), x)
         ELSE <<x>> \o s

(* Line 133: list.sort(key, reverse=True), which is stable. *)
RECURSIVE sort_by_recency(_)
sort_by_recency(facts) ==
    IF facts = <<>> THEN <<>>
    ELSE insert_desc(sort_by_recency(SubSeq(facts, 1, Len(facts) - 1)),
                     facts[Len(facts)])

(* Line 134: facts[:limit] for limit >= 1. *)
paginate(facts, limit) ==
    SubSeq(facts, 1, IF limit < Len(facts) THEN limit ELSE Len(facts))

(* Lines 135-143. *)
fact_response(i) ==
    [content |-> i.content, category |-> i.category,
     source_url |-> i.source_url, learned_at |-> parse_dt(i.learned_at)]

(* Lines 121-144: the body get_facts returns. *)
get_facts_body(raw, limit, category) ==
    LET facts == sort_by_recency(filter_by_category(load_facts(raw), category))
        items == paginate(facts, limit)
    IN  [kind |-> "facts",
         items |-> [k \in 1..Len(items) |-> fact_response(items[k])],
         total |-> Len(facts)]

(* Lines 169-181. *)
facts_this_week(facts, tday) ==
    LET week_ago == tday - 6
    IN  Cardinality({k \in 1..Len(facts) :
            /\ facts[k].learned_at.kind = "ts"
            /\ week_ago <= DateOf(facts[k].learned_at.t)
            /\ DateOf(facts[k].learned_at.t) <= tday})

(* The day of the call returned in place of the stored date. *)
get_streaks_body_today(row, tday) ==
    [kind |-> "stats",
     current_streak |-> OrZero(row.current_streak),
     longest_streak |-> OrZero(row.longest_streak),
     total_facts_count |-> OrZero(row.total_facts_count),
     facts_this_week |-> facts_this_week(load_facts(row.facts_learned), tday),
     last_activity_date |-> strftime_ymd(tday)]

(* Lines 163-189: the body get_streaks returns. *)
get_streaks_body(row, tday) ==
    [kind |-> "stats",
     current_streak |-> OrZero(row.current_streak),
     longest_streak |-> OrZero(row.longest_streak),
     total_facts_count |-> OrZero(row.total_facts_count),
     facts_this_week |-> facts_this_week(load_facts(row.facts_learned), tday),
     last_activity_date |-> row.last_activity_date]

----------------------------------------------------------------------------
(* The requests.                                                           *)

NoLearnedAt == [kind |-> "null", t |-> 0]
(* A ledger element.  type is the JSON type of the element as json.loads   *)
(* gives it back: add_fact only ever writes objects (dicts).                *)
NoItem == [type |-> "dict", content |-> "", category |-> NoneStr,
           source_url |-> NoneStr, learned_at |-> NoLearnedAt]
NoRow == [facts_learned |-> [kind |-> "null", items |-> <<>>],
          total_facts_count |-> 0, current_streak |-> 0, longest_streak |-> 0,
          last_activity_date |-> NullDate]
NoBody == [kind |-> "none"]
NoStreak == [new_current |-> 0, new_longest |-> 0, new_last_activity |-> NullDate]

(* The bodies the callers send to POST /user/{user_id}/facts. *)
Payloads ==
    {[content |-> "a", category |-> NoneStr, source_url |-> NoneStr],
     [content |-> "b", category |-> "diet", source_url |-> "http://x"],
     [content |-> "", category |-> NoneStr, source_url |-> NoneStr]}

(* The query parameters the callers send to GET /user/{user_id}/facts. *)
Limits == {LimitMin - 1, LimitMin, LimitMax + 1}
Categories == {NoneStr, "diet"}

Blank ==
    [pc |-> "idle", op |-> "none", caller |-> "", uid |-> 0,
     payload |-> NoItem, limit |-> 0, category |-> NoneStr,
     row |-> NoRow, facts |-> <<>>, new_item |-> NoItem,
     total |-> 0, streak |-> NoStreak,
     status |-> 0, detail |-> "", body |-> NoBody, at |-> "idle",
     cause |-> ""]

NoTxn(tbl) == [owner |-> NoReq, rows |-> tbl]

(* SELECT ... FROM users WHERE id = ?: the five columns add_fact reads. *)
select_row(tbl, user_id) ==
    [facts_learned |-> tbl[user_id].facts_learned,
     total_facts_count |-> tbl[user_id].total_facts_count,
     current_streak |-> tbl[user_id].current_streak,
     longest_streak |-> tbl[user_id].longest_streak,
     last_activity_date |-> tbl[user_id].last_activity_date]

Stored(u) == Len(load_facts(users[u].facts_learned))
TotalStored == Stored(1) + Stored(2)

AllIdle == \A r \in Reqs : req[r].pc = "idle"

(* The request ends: the response is on its way, the connection is closed.  *)
(* at is history: the step the handler was at when it ended.                *)
Finish(r, status, detail, body) ==
    [req[r] EXCEPT !.pc = "done", !.status = status, !.detail = detail,
                   !.body = body, !.at = req[r].pc]

(* The request ends with an error.  cause is history: what made the handler *)
(* give up (the raise it took), whatever the response then says.            *)
Fail(r, status, detail, cause) ==
    [Finish(r, status, detail, NoBody) EXCEPT !.cause = cause]

(* Any limit taken as it comes. *)
limit_never_rejected(limit) == FALSE

(* Lines 110-111. *)
limit_rejected(limit) == limit < LimitMin \/ limit > LimitMax

(* Lines 123, 133, 173-174: f.get(...) on an element that is not a dict     *)
(* raises AttributeError; the comprehension, the sort key and the loop each *)
(* visit every element.                                                     *)
facts_raise(facts) == \E k \in 1..Len(facts) : facts[k].type # "dict"

(* Lines 110-144, past the access guard and the SELECT: what get_facts      *)
(* answers for the stored text raw.                                         *)
get_facts_response(raw, limit, category) ==
    IF limit_rejected(limit)
    THEN [status |-> 422, detail |-> "limit must be between 1 and 500",
          body |-> NoBody]
    ELSE IF facts_raise(load_facts(raw))
    THEN [status |-> 500, detail |-> "Internal Server Error", body |-> NoBody]
    ELSE [status |-> 200, detail |-> "",
          body |-> get_facts_body(raw, limit, category)]

(* Lines 160-189, past the access guard and the SELECT: what get_streaks    *)
(* answers for the row.                                                     *)
get_streaks_response(row, tday) ==
    IF facts_raise(load_facts(row.facts_learned))
    THEN [status |-> 500, detail |-> "Internal Server Error", body |-> NoBody]
    ELSE [status |-> 200, detail |-> "", body |-> get_streaks_body(row, tday)]

(* A schema that accepts every body. *)
FactCreateAny(payload) == TRUE

(* FactCreate: the body add_fact accepts. *)
FactCreateValid(payload) == payload.content # ""

(* database.py lines 16-18: get_db() returns a connection, or              *)
(* sqlite3.connect raises OperationalError when the file cannot be opened.  *)
get_db == {"connection", "OperationalError"}

(* get_db() raising at lines 65, 112, 151: no handler has a try around it,  *)
(* so the framework answers 500 for all three.                              *)
ConnectFailed(call) ==
    [call EXCEPT !.pc = "done", !.status = 500,
                 !.detail = "Internal Server Error", !.at = "call",
                 !.cause = "StorageFailure"]

(* The body add_fact is called with, as the handler keeps it. *)
AddFactArgs(caller, uid, payload) ==
    [Blank EXCEPT !.op = "add_fact", !.caller = caller, !.uid = uid,
                  !.payload = [NoItem EXCEPT !.content = payload.content,
                                  !.category = payload.category,
                                  !.source_url = payload.source_url]]

(* Lines 64-65: add_fact is entered with the caller's identity and opens a  *)
(* connection, outside the try of line 66.  It never looks at the content.  *)
AddFactCall(r, caller, uid, payload) ==
    /\ req[r].pc = "idle"
    /\ snap' = (IF AllIdle THEN users ELSE snap)
    /\ \E conn \in get_db :
            req' = [req EXCEPT ![r] =
                IF conn = "OperationalError"
                THEN ConnectFailed(AddFactArgs(caller, uid, payload))
                ELSE [AddFactArgs(caller, uid, payload) EXCEPT !.pc = "access"]]
    /\ UNCHANGED <<users, txn, clock, tz, appended, fin, fout>>

(* A body the FactCreate schema does not accept: the route answers 422 and  *)
(* add_fact is not entered.                                                 *)
AddFactInvalid(r, caller, uid, payload) ==
    /\ req[r].pc = "idle"
    /\ snap' = (IF AllIdle THEN users ELSE snap)
    /\ req' = [req EXCEPT ![r] =
            [AddFactArgs(caller, uid, payload) EXCEPT
                !.pc = "done", !.status = 422, !.detail = "validation",
                !.at = "call", !.cause = "ValidationError"]]
    /\ UNCHANGED <<users, txn, clock, tz, appended, fin, fout>>

(* POST /user/{user_id}/facts: the body is validated as a FactCreate (line  *)
(* 64) before add_fact is entered.                                          *)
PostFact(r, caller, uid, payload) ==
    IF FactCreateValid(payload)
    THEN AddFactCall(r, caller, uid, payload)
    ELSE AddFactInvalid(r, caller, uid, payload)

(* Lines 109-112. *)
GetFactsCall(r, caller, uid, limit, category) ==
    /\ req[r].pc = "idle"
    /\ snap' = (IF AllIdle THEN users ELSE snap)
    /\ LET call == [Blank EXCEPT !.op = "get_facts", !.caller = caller,
                          !.uid = uid, !.limit = limit, !.category = category]
       IN  \E conn \in get_db :
            req' = [req EXCEPT ![r] =
                IF limit_rejected(limit)
                THEN [call EXCEPT !.pc = "done", !.status = 422,
                                  !.detail = "limit must be between 1 and 500",
                                  !.at = "call", !.cause = "InvalidArgument"]
                ELSE IF conn = "OperationalError" THEN ConnectFailed(call)
                ELSE [call EXCEPT !.pc = "access"]]
    /\ UNCHANGED <<users, txn, clock, tz, appended, fin, fout>>

(* Lines 150-151. *)
GetStreaksCall(r, caller, uid) ==
    /\ req[r].pc = "idle"
    /\ snap' = (IF AllIdle THEN users ELSE snap)
    /\ LET call == [Blank EXCEPT !.op = "get_streaks",
                          !.caller = caller, !.uid = uid]
       IN  \E conn \in get_db :
            req' = [req EXCEPT ![r] =
                IF conn = "OperationalError" THEN ConnectFailed(call)
                ELSE [call EXCEPT !.pc = "access"]]
    /\ UNCHANGED <<users, txn, clock, tz, appended, fin, fout>>

(* Lines 67, 114, 153: the access guard, on the committed table. *)
EnsureUserAccess(r) ==
    /\ req[r].pc = "access"
    /\ LET st == ensure_user_access(users, req[r].uid, req[r].caller)
       IN  req' = [req EXCEPT ![r] =
                IF st = 200 THEN [req[r] EXCEPT !.pc = "select"]
                ELSE IF st = 404 THEN Fail(r, 404, "User not found", "NotFound")
                ELSE Fail(r, 403, "Forbidden: cannot access other user's data",
                          "Forbidden")]
    /\ UNCHANGED <<users, txn, clock, tz, snap, appended, fin, fout>>

(* Lines 69-75: read the row and load the list. *)
AddFactSelect(r) ==
    /\ req[r].pc = "select"
    /\ req[r].op = "add_fact"
    /\ req' = [req EXCEPT ![r] =
            IF req[r].uid \notin DOMAIN users
            THEN Fail(r, 404, "User not found", "NotFound")
            ELSE LET row == select_row(users, req[r].uid)
                 IN  [req[r] EXCEPT !.pc = "stamp", !.row = row,
                         !.facts = load_facts(row.facts_learned)]]
    /\ UNCHANGED <<users, txn, clock, tz, snap, appended, fin, fout>>

(* Lines 76-83: read the clock, stamp the item and append it to the list    *)
(* read before.                                                             *)
AddFactStamp(r) ==
    /\ req[r].pc = "stamp"
    /\ req[r].op = "add_fact"
    /\ LET new_item == [req[r].payload EXCEPT !.learned_at = TsStr(utcnow)]
       IN  req' = [req EXCEPT ![r].pc = "save", ![r].new_item = new_item,
                       ![r].facts = append_item(req[r].facts, new_item)]
    /\ UNCHANGED <<users, txn, clock, tz, snap, appended, fin, fout>>

(* The ledger written outside the transaction (autocommit). *)
SaveFactsAutocommit(r) ==
    /\ req[r].pc = "save"
    /\ txn.owner = NoReq
    /\ users' = save_facts(users, req[r].uid, req[r].facts)
    /\ txn' = [owner |-> r, rows |-> users']
    /\ req' = [req EXCEPT ![r].pc = "update"]
    /\ UNCHANGED <<clock, tz, snap, appended, fin, fout>>

(* Line 85: the first write opens the transaction and takes the write lock. *)
SaveFacts(r) ==
    /\ req[r].pc = "save"
    /\ txn.owner = NoReq
    /\ txn' = [owner |-> r,
               rows |-> save_facts(users, req[r].uid, req[r].facts)]
    /\ req' = [req EXCEPT ![r].pc = "update"]
    /\ UNCHANGED <<users, clock, tz, snap, appended, fin, fout>>

(* Lines 87-92: the counters, inside the same transaction. *)
UpdateCounters(r) ==
    /\ req[r].pc = "update"
    /\ txn.owner = r
    /\ IF parse_last_activity_raises(req[r].row.last_activity_date)
       THEN (* TypeError is no sqlite3.Error: it passes lines 101-103 and   *)
            (* the connection is closed with its transaction open.          *)
            /\ txn' = NoTxn(users)
            /\ req' = [req EXCEPT ![r] =
                    Fail(r, 500, "Internal Server Error", "TypeError")]
       ELSE LET total == next_total(req[r].row.total_facts_count)
                streak == compute_new_streak(req[r].row.current_streak,
                                             req[r].row.longest_streak,
                                             req[r].row.last_activity_date,
                                             today)
            IN  /\ txn' = [txn EXCEPT !.rows =
                          update_counters(txn.rows, req[r].uid, total, streak)]
                /\ req' = [req EXCEPT ![r].pc = "commit", ![r].total = total,
                                      ![r].streak = streak]
    /\ UNCHANGED <<users, clock, tz, snap, appended, fin, fout>>

(* Lines 94-100. *)
Commit(r) ==
    /\ req[r].pc = "commit"
    /\ txn.owner = r
    /\ users' = txn.rows
    /\ txn' = NoTxn(users')
    /\ appended' = [appended EXCEPT ![req[r].uid] = @ + 1]
    /\ req' = [req EXCEPT ![r] =
            Finish(r, 200, "", [kind |-> "fact",
                                content |-> req[r].new_item.content,
                                category |-> req[r].new_item.category,
                                source_url |-> req[r].new_item.source_url,
                                learned_at |-> parse_dt(req[r].new_item.learned_at)])]
    /\ UNCHANGED <<clock, tz, snap, fin, fout>>

(* The steps that run a statement on the connection. *)
DbSteps == {"access", "select", "save", "update", "commit"}

(* sqlite3.Error from a statement.  add_fact catches it, rolls back and     *)
(* answers 500 (lines 101-105); the readers let it through (lines 145-146,  *)
(* 190-191) and the framework answers 500.                                  *)
StorageError(r) ==
    /\ req[r].pc \in DbSteps
    /\ txn' = IF txn.owner = r THEN NoTxn(users) ELSE txn
    /\ req' = [req EXCEPT ![r] =
            Fail(r, 500, IF req[r].op = "add_fact" THEN "Database error"
                         ELSE "Internal Server Error", "StorageFailure")]
    /\ UNCHANGED <<users, clock, tz, snap, appended, fin, fout>>

(* Line 85 while another connection holds the write lock: the statement     *)
(* waits (SaveFacts is not enabled) and after the connection's timeout      *)
(* raises sqlite3.OperationalError, "database is locked".                   *)
BusyTimeout(r) ==
    /\ req[r].pc = "save"
    /\ txn.owner \notin {NoReq, r}
    /\ req' = [req EXCEPT ![r] = Fail(r, 500, "Database error", "Busy")]
    /\ UNCHANGED <<users, txn, clock, tz, snap, appended, fin, fout>>

(* Lines 115-144. *)
GetFactsSelect(r) ==
    /\ req[r].pc = "select"
    /\ req[r].op = "get_facts"
    /\ req' = [req EXCEPT ![r] =
            IF req[r].uid \notin DOMAIN users
            THEN Fail(r, 404, "User not found", "NotFound")
            ELSE IF facts_raise(load_facts(users[req[r].uid].facts_learned))
            THEN Fail(r, 500, "Internal Server Error", "AttributeError")
            ELSE Finish(r, 200, "",
                    get_facts_body(users[req[r].uid].facts_learned,
                                   req[r].limit, req[r].category))]
    /\ UNCHANGED <<users, txn, clock, tz, snap, appended, fin, fout>>

(* The row read through the writer's open transaction. *)
GetStreaksSelectDirty(r) ==
    /\ req[r].pc = "select"
    /\ req[r].op = "get_streaks"
    /\ req' = [req EXCEPT ![r] =
            IF req[r].uid \notin DOMAIN users
            THEN Fail(r, 404, "User not found", "NotFound")
            ELSE [req[r] EXCEPT !.pc = "week",
                                !.row = select_row(txn.rows, req[r].uid)]]
    /\ UNCHANGED <<users, txn, clock, tz, snap, appended, fin, fout>>

(* Lines 154-161: read the row. *)
GetStreaksSelect(r) ==
    /\ req[r].pc = "select"
    /\ req[r].op = "get_streaks"
    /\ req' = [req EXCEPT ![r] =
            IF req[r].uid \notin DOMAIN users
            THEN Fail(r, 404, "User not found", "NotFound")
            ELSE [req[r] EXCEPT !.pc = "week",
                                !.row = select_row(users, req[r].uid)]]
    /\ UNCHANGED <<users, txn, clock, tz, snap, appended, fin, fout>>

(* Lines 163-189: read the clock, count the week of the row read before     *)
(* and return.                                                              *)
GetStreaksWeek(r) ==
    /\ req[r].pc = "week"
    /\ req[r].op = "get_streaks"
    /\ LET res == get_streaks_response(req[r].row, today)
       IN  req' = [req EXCEPT ![r] =
                IF res.status = 200
                THEN Finish(r, 200, "", res.body)
                ELSE Fail(r, res.status, res.detail, "AttributeError")]
    /\ UNCHANGED <<users, txn, clock, tz, snap, appended, fin, fout>>

(* The response is delivered; the slot is free for the next call. *)
Return(r) ==
    /\ req[r].pc = "done"
    /\ req' = [req EXCEPT ![r] = Blank]
    /\ snap' = IF \A q \in Reqs \ {r} : req[q].pc = "idle" THEN users ELSE snap
    /\ UNCHANGED <<users, txn, clock, tz, appended, fin, fout>>

(* Time passes. *)
Tick ==
    /\ clock < MaxTime
    /\ clock' = clock + 1
    /\ UNCHANGED <<users, txn, req, tz, snap, appended, fin, fout>>

----------------------------------------------------------------------------
(* Calls one after the other: a call starts when no other is in flight.    *)

NoArgs == [fn |-> "none"]
NoResult == [fn |-> "none"]

Init ==
    /\ users = FreshTable
    /\ txn = NoTxn(FreshTable)
    /\ req = [r \in Reqs |-> Blank]
    /\ clock = UnitsPerDay
    /\ tz \in TzOffsets
    /\ snap = FreshTable
    /\ appended = [u \in UserIds |-> 0]
    /\ fin = NoArgs
    /\ fout = NoResult

Targets == UserIds \cup {MissingId}

SeqAddFact ==
    \E c \in Usernames, u \in Targets, p \in Payloads :
        AllIdle /\ TotalStored < MaxFacts /\ PostFact(FirstReq, c, u, p)

SeqGetFacts ==
    \E c \in Usernames, u \in Targets, l \in Limits, k \in Categories :
        AllIdle /\ GetFactsCall(FirstReq, c, u, l, k)

SeqGetStreaks ==
    \E c \in Usernames, u \in Targets :
        AllIdle /\ GetStreaksCall(FirstReq, c, u)

Steps ==
    \E r \in Reqs :
        \/ EnsureUserAccess(r)
        \/ AddFactSelect(r)
        \/ AddFactStamp(r)
        \/ SaveFacts(r)
        \/ UpdateCounters(r)
        \/ Commit(r)
        \/ StorageError(r)
        \/ GetFactsSelect(r)
        \/ GetStreaksSelect(r)
        \/ GetStreaksWeek(r)
        \/ Return(r)

Next ==
    \/ SeqAddFact
    \/ SeqGetFacts
    \/ SeqGetStreaks
    \/ Steps
    \/ Tick

Spec == Init /\ [][Next]_vars

----------------------------------------------------------------------------
(* Calls that overlap: the route handlers are plain functions, which the   *)
(* framework runs on a pool of threads, each with a connection of its own  *)
(* (database.py, lines 16-18).                                             *)

(* Each of the parallel callers is the owner and sends a fact of its own;  *)
(* the clock runs to MaxTimeConc.                                           *)
ConcPayload(r) ==
    IF r = FirstReq
    THEN [content |-> "a", category |-> NoneStr, source_url |-> NoneStr]
    ELSE [content |-> "b", category |-> "diet", source_url |-> "http://x"]

ConcAddFact ==
    \E r \in Reqs :
        TotalStored < MaxFacts /\ AddFactCall(r, "alice", 1, ConcPayload(r))

ConcTick == clock < MaxTimeConc /\ Tick

ConcSteps ==
    \E r \in Reqs :
        \/ EnsureUserAccess(r)
        \/ AddFactSelect(r)
        \/ AddFactStamp(r)
        \/ SaveFacts(r)
        \/ UpdateCounters(r)
        \/ Commit(r)
        \/ StorageError(r)
        \/ BusyTimeout(r)
        \/ Return(r)

NextConc ==
    \/ ConcAddFact
    \/ ConcSteps
    \/ ConcTick

SpecConc == Init /\ [][NextConc]_vars

----------------------------------------------------------------------------
(* compute_new_streak on its own: the arguments are drawn at the start.    *)

StreakIn == {NoneInt} \cup (0..MaxStreakIn)
LastActivityIn == {NullDate, EmptyDate, BadDate} \cup {strftime_ymd(d) : d \in 1..MaxDay}

InitStreak ==
    /\ users = FreshTable
    /\ txn = NoTxn(FreshTable)
    /\ req = [r \in Reqs |-> Blank]
    /\ clock = UnitsPerDay
    /\ tz = 0
    /\ snap = FreshTable
    /\ appended = [u \in UserIds |-> 0]
    /\ fin \in [fn : {"compute_new_streak"}, current_streak : StreakIn,
                longest_streak : StreakIn, last_activity_raw : LastActivityIn,
                today : 1..MaxDay]
    /\ fout = NoResult

ApplyStreak ==
    /\ fin.fn = "compute_new_streak"
    /\ fout = NoResult
    /\ IF parse_last_activity_raises(fin.last_activity_raw)
       THEN fout' = [fn |-> "compute_new_streak", outcome |-> "TypeError",
                     new_current |-> NoneInt, new_longest |-> NoneInt,
                     new_last_activity |-> NullDate]
       ELSE LET res == compute_new_streak(fin.current_streak,
                            fin.longest_streak, fin.last_activity_raw,
                            fin.today)
            IN  fout' = [fn |-> "compute_new_streak", outcome |-> "return",
                         new_current |-> res.new_current,
                         new_longest |-> res.new_longest,
                         new_last_activity |-> res.new_last_activity]
    /\ UNCHANGED <<users, txn, req, clock, tz, snap, appended, fin>>

NextStreak == ApplyStreak

SpecStreak == InitStreak /\ [][NextStreak]_vars

----------------------------------------------------------------------------
(* Properties.                                                             *)

Done(r) == req[r].pc = "done"
Ok(r) == Done(r) /\ req[r].status = 200
AddFactDone(r) == Done(r) /\ req[r].op = "add_fact"
Ledger(tbl, u) == load_facts(tbl[u].facts_learned)

(* C1 (SpecConc): once the overlapping add_fact calls of a user have all    *)
(* returned, the stored total_facts_count and the length of the stored      *)
(* ledger equal the number of calls that returned 200 (the initial count    *)
(* is 0): no update is lost.                                                *)
C1_NoLostUpdate ==
    AllIdle =>
        \A u \in UserIds :
            /\ users[u].total_facts_count = appended[u]
            /\ Len(Ledger(users, u)) = appended[u]

(* C2 (Spec): in every reachable state the stored longest_streak of every   *)
(* user is at least the stored current_streak.                              *)
C2_LongestAtLeastCurrent ==
    \A u \in UserIds : users[u].longest_streak >= users[u].current_streak

(* C2 witness: a streak that two add_fact calls on consecutive days built. *)
C2_Witness ==
    \E u \in UserIds :
        users[u].current_streak = 2 /\ users[u].longest_streak = 2

(* C3 (SpecStreak): for every prior state compute_new_streak returns        *)
(* new_current >= 1 and new_longest >= new_current.                         *)
C3_StreakBounds ==
    fout.fn = "compute_new_streak" =>
        /\ fout.new_current >= 1
        /\ fout.new_longest >= fout.new_current

(* C3 witness: a result for a stored streak of 0 whose last activity is     *)
(* today, and a stored longest_streak below the stored current one.         *)
C3_Witness ==
    /\ fout.fn = "compute_new_streak"
    /\ fin.last_activity_raw = strftime_ymd(fin.today)
    /\ fin.current_streak = 0
    /\ fin.longest_streak = NoneInt

(* C4 (Spec): an add_fact that returns 200 adds one to total_facts_count,   *)
(* and when the stored last_activity_date already was the day of this call  *)
(* (an earlier call succeeded this calendar day) it leaves current_streak   *)
(* as that earlier call left it.                                            *)
C4_SameDayRepeat ==
    \A r \in Reqs :
        (AddFactDone(r) /\ Ok(r)) =>
            LET u == req[r].uid
            IN  /\ users[u].total_facts_count = snap[u].total_facts_count + 1
                /\ (snap[u].last_activity_date = users[u].last_activity_date
                        => users[u].current_streak = snap[u].current_streak)

(* C4 witness: the second successful add_fact of a calendar day. *)
C4_Witness ==
    \E r \in Reqs :
        /\ AddFactDone(r) /\ Ok(r)
        /\ snap[req[r].uid].last_activity_date
               = users[req[r].uid].last_activity_date
        /\ users[req[r].uid].total_facts_count = 2

(* C5 (SpecStreak): a last activity exactly one day before today gives      *)
(* new_current = current_streak + 1 (an absent current_streak counts as 0); *)
(* one two or more days before today gives new_current = 1.                 *)
C5_GapRule ==
    (fout.fn = "compute_new_streak" /\ fin.last_activity_raw.kind = "ymd") =>
        LET d == fin.last_activity_raw.day
        IN  /\ (d = fin.today - 1
                    => fout.new_current = OrZero(fin.current_streak) + 1)
            /\ (d <= fin.today - 2 => fout.new_current = 1)

(* C5 witness: a streak of 3 reset by a gap of two days. *)
C5_Witness ==
    /\ fout.fn = "compute_new_streak"
    /\ fin.last_activity_raw = strftime_ymd(fin.today - 2)
    /\ fin.current_streak = MaxStreakIn
    /\ fout.new_current = 1

(* C6 (Spec): in every reachable state the stored total_facts_count of      *)
(* every user equals the number of entries of the stored ledger.            *)
C6_CountMatchesLedger ==
    \A u \in UserIds :
        users[u].total_facts_count = Len(Ledger(users, u))

(* C6 witness: an add_fact that failed after one that succeeded. *)
C6_Witness ==
    \E r \in Reqs :
        /\ AddFactDone(r) /\ req[r].status = 500
        /\ req[r].uid \in UserIds
        /\ users[req[r].uid].total_facts_count >= 1

(* C7 (Spec): a call of add_fact, get_facts or get_streaks whose target     *)
(* user does not exist ends 404, and one whose target's stored username is  *)
(* not the caller's ends 403; either way it returns no body and leaves the  *)
(* table as it was. Calls that could not open the store, and add_fact       *)
(* bodies the schema turned away before the handler ran, are not held       *)
(* against the statement.                                                   *)
C7_AccessGuard ==
    \A r \in Reqs :
        (Done(r) /\ req[r].cause \notin {"StorageFailure", "ValidationError"}) =>
            LET missing == req[r].uid \notin DOMAIN users
                foreign == ~missing /\ users[req[r].uid].username # req[r].caller
            IN  (missing \/ foreign) =>
                    /\ req[r].status = (IF missing THEN 404 ELSE 403)
                    /\ req[r].body = NoBody
                    /\ users = snap

(* C7, the part that holds of every call: a missing or foreign target never *)
(* gets a 200 or a body, and the table stays as it was.                     *)
C7_NoLeakNoChange ==
    \A r \in Reqs :
        Done(r) =>
            LET missing == req[r].uid \notin DOMAIN users
                foreign == ~missing /\ users[req[r].uid].username # req[r].caller
            IN  (missing \/ foreign) =>
                    /\ req[r].status # 200
                    /\ req[r].body = NoBody
                    /\ users = snap

(* C7 witness: bob asks for the facts of alice, who has one. *)
C7_Witness ==
    \E r \in Reqs :
        /\ Done(r) /\ req[r].op = "get_facts" /\ req[r].status = 403
        /\ Len(Ledger(users, req[r].uid)) >= 1

(* C8 (Spec): add_fact with empty content ends 422 and leaves the ledger,   *)
(* the counter and the streak fields as they were.                          *)
C8_EmptyContentRejected ==
    \A r \in Reqs :
        (AddFactDone(r) /\ req[r].payload.content = "") =>
            /\ req[r].status = 422
            /\ req[r].body = NoBody
            /\ users = snap

(* C8 witness: the owner sends empty content. *)
C8_Witness ==
    \E r \in Reqs :
        /\ AddFactDone(r) /\ req[r].payload.content = ""
        /\ req[r].uid \in UserIds
        /\ users[req[r].uid].username = req[r].caller

(* The row add_fact commits: the five fields at their new values. *)
NewRow(old, q) ==
    [old EXCEPT !.facts_learned = json_dumps(q.facts),
                !.total_facts_count = q.total,
                !.current_streak = q.streak.new_current,
                !.longest_streak = q.streak.new_longest,
                !.last_activity_date = q.streak.new_last_activity]

(* C9 (Spec): while an add_fact runs and after it failed the committed      *)
(* table is the one it started from; after it succeeded the user's five     *)
(* fields all hold the new values.                                          *)
C9_AllOrNothing ==
    \A r \in Reqs :
        req[r].op = "add_fact" =>
            IF Ok(r)
            THEN users = [snap EXCEPT ![req[r].uid] = NewRow(@, req[r])]
            ELSE users = snap

(* C9 witness: the store failed on the counters' UPDATE, after the ledger's. *)
C9_Witness ==
    \E r \in Reqs :
        /\ AddFactDone(r) /\ req[r].status = 500 /\ req[r].at = "update"

(* C10 (Spec): after an add_fact that returned 200 the stored list is the   *)
(* list stored before the call followed by the one new entry.               *)
C10_AppendOnly ==
    \A r \in Reqs :
        (AddFactDone(r) /\ Ok(r)) =>
            LET old == Ledger(snap, req[r].uid)
                new == Ledger(users, req[r].uid)
            IN  /\ Len(new) = Len(old) + 1
                /\ SubSeq(new, 1, Len(old)) = old
                /\ new[Len(new)].content = req[r].payload.content
                /\ new[Len(new)].category = req[r].payload.category
                /\ new[Len(new)].source_url = req[r].payload.source_url
                /\ new[Len(new)].learned_at.kind = "ts"

(* C10 witness: a second entry, unlike the first, appended to a ledger. *)
C10_Witness ==
    \E r \in Reqs :
        /\ AddFactDone(r) /\ Ok(r)
        /\ Len(Ledger(users, req[r].uid)) = 2
        /\ Ledger(users, req[r].uid)[1] # Ledger(users, req[r].uid)[2]

----------------------------------------------------------------------------
(* Rows whose facts_learned was not written by add_fact: NULL (the column   *)
(* added without NOT NULL), '', text that is not JSON, JSON that is not a   *)
(* list, and a JSON list whose element is not an object.                    *)

NonDict == [NoItem EXCEPT !.type = "int"]

LegacyFacts ==
    {[kind |-> "null", items |-> <<>>],
     [kind |-> "empty", items |-> <<>>],
     [kind |-> "text", items |-> <<>>],
     [kind |-> "scalar", items |-> <<>>],
     json_dumps(<<NonDict>>)}

LegacyTables == {[FreshTable EXCEPT ![1].facts_learned = v] : v \in LegacyFacts}

InitLegacy ==
    /\ users \in LegacyTables
    /\ txn = NoTxn(users)
    /\ req = [r \in Reqs |-> Blank]
    /\ clock = UnitsPerDay
    /\ tz \in TzOffsets
    /\ snap = users
    /\ appended = [u \in UserIds |-> 0]
    /\ fin = NoArgs
    /\ fout = NoResult

(* The owner of the row calls, with arguments the routes accept. *)
LegacyAddFact ==
    \E p \in {q \in Payloads : FactCreateValid(q)} :
        AllIdle /\ TotalStored < MaxFacts
                /\ AddFactCall(FirstReq, "alice", 1, p)

LegacyGetFacts ==
    \E k \in Categories :
        AllIdle /\ GetFactsCall(FirstReq, "alice", 1, LimitMax, k)

LegacyGetStreaks == AllIdle /\ GetStreaksCall(FirstReq, "alice", 1)

NextLegacy ==
    \/ LegacyAddFact
    \/ LegacyGetFacts
    \/ LegacyGetStreaks
    \/ Steps
    \/ ConcTick

SpecLegacy == InitLegacy /\ [][NextLegacy]_vars

(* The stored text is what add_fact writes: a JSON list of objects. *)
WellFormed(raw) ==
    raw.kind = "list" /\ \A k \in 1..Len(raw.items) : raw.items[k].type = "dict"

(* C11 (SpecLegacy): with the store working, a call by the owner on a row   *)
(* whose stored facts_learned is absent or malformed returns 200; get_facts *)
(* returns no items and total 0, get_streaks returns facts_this_week 0, and *)
(* add_fact stores a ledger of the one new entry and adds one to            *)
(* total_facts_count.                                                       *)
C11_MalformedLedgerIsEmpty ==
    \A r \in Reqs :
        (/\ Done(r)
         /\ req[r].cause # "StorageFailure"
         /\ ~WellFormed(snap[req[r].uid].facts_learned)) =>
            /\ req[r].status = 200
            /\ req[r].op = "get_facts" =>
                    req[r].body.total = 0 /\ req[r].body.items = <<>>
            /\ req[r].op = "get_streaks" => req[r].body.facts_this_week = 0
            /\ req[r].op = "add_fact" =>
                    /\ Ledger(users, req[r].uid) = <<req[r].new_item>>
                    /\ users[req[r].uid].total_facts_count
                           = snap[req[r].uid].total_facts_count + 1

(* C11, the stored values for which it holds: everything but a JSON list. *)
C11_NotAListIsEmpty ==
    \A r \in Reqs :
        (/\ Done(r)
         /\ req[r].cause # "StorageFailure"
         /\ snap[req[r].uid].facts_learned.kind # "list") =>
            /\ req[r].status = 200
            /\ req[r].op = "get_facts" =>
                    req[r].body.total = 0 /\ req[r].body.items = <<>>
            /\ req[r].op = "get_streaks" => req[r].body.facts_this_week = 0
            /\ req[r].op = "add_fact" =>
                    /\ Ledger(users, req[r].uid) = <<req[r].new_item>>
                    /\ users[req[r].uid].total_facts_count
                           = snap[req[r].uid].total_facts_count + 1

----------------------------------------------------------------------------
(* get_facts on its own: the stored ledger and the query are drawn at the   *)
(* start.                                                                   *)

MaxLedger == 3

(* A learned_at with fractional seconds, "2024-01-01T10:00:00.123456Z":     *)
(* the instant t and a fraction of a second.                                *)
FracStr(t) == [kind |-> "frac", t |-> t]

(* A learned_at that is no timestamp at all. *)
BadLearnedAt == [kind |-> "text", t |-> 0]

LearnedAtsIn == {TsStr(1), TsStr(2), FracStr(3), NoLearnedAt, BadLearnedAt}
StoredCategories == {"diet", "sleep"}

EntriesIn ==
    {[NoItem EXCEPT !.content = "a", !.category = c, !.learned_at = l] :
        c \in StoredCategories, l \in LearnedAtsIn}

LedgersIn == UNION {[1..n -> EntriesIn] : n \in 0..MaxLedger}

LimitsIn == {LimitMin - 1, LimitMin, LimitMin + 1, LimitMax, LimitMax + 1}
CategoriesIn == {NoneStr, "", "diet"}

InitFacts ==
    /\ users = FreshTable
    /\ txn = NoTxn(FreshTable)
    /\ req = [r \in Reqs |-> Blank]
    /\ clock = UnitsPerDay
    /\ tz = 0
    /\ snap = FreshTable
    /\ appended = [u \in UserIds |-> 0]
    /\ fin \in [fn : {"get_facts"}, facts : LedgersIn, limit : LimitsIn,
                category : CategoriesIn]
    /\ fout = NoResult

ApplyFacts ==
    /\ fin.fn = "get_facts"
    /\ fout = NoResult
    /\ LET res == get_facts_response(json_dumps(fin.facts), fin.limit,
                                     fin.category)
       IN  fout' = [fn |-> "get_facts", status |-> res.status,
                    detail |-> res.detail, body |-> res.body]
    /\ UNCHANGED <<users, txn, req, clock, tz, snap, appended, fin>>

NextFacts == ApplyFacts

SpecFacts == InitFacts /\ [][NextFacts]_vars

(* C12 (SpecFacts): get_facts answers 422, "limit must be between 1 and     *)
(* 500", with no body for every limit below 1 or above 500, and 200 for     *)
(* every limit from 1 to 500, whatever the ledger and the category.         *)
C12_LimitRange ==
    fout.fn = "get_facts" =>
        IF fin.limit \in LimitMin..LimitMax
        THEN fout.status = 200
        ELSE /\ fout.status = 422
             /\ fout.detail = "limit must be between 1 and 500"
             /\ fout.body = NoBody

(* C12 witness: limit 501 on a ledger of three entries, and nothing cut to  *)
(* 500.                                                                     *)
C12_Witness ==
    /\ fout.fn = "get_facts"
    /\ fin.limit = LimitMax + 1
    /\ Len(fin.facts) = MaxLedger
    /\ fout.status = 422

(* C13 (SpecFacts): for every ledger, every category (absent, or any string *)
(* given) and every limit in range, the total get_facts returns is the      *)
(* number of stored entries that pass the category filter, all of them      *)
(* when no category is given and those of exactly the given category        *)
(* otherwise, counted before the page is cut, and the page holds            *)
(* min(limit, total) items.                                                 *)
C13_TotalBeforeTruncation ==
    (fout.fn = "get_facts" /\ fout.status = 200) =>
        LET passing == {k \in 1..Len(fin.facts) :
                            fin.category = NoneStr
                                \/ fin.facts[k].category = fin.category}
        IN  /\ fout.body.total = Cardinality(passing)
            /\ Len(fout.body.items)
                   = IF fin.limit < fout.body.total THEN fin.limit
                     ELSE fout.body.total

(* C13, the categories for which it holds: absent, or a non-empty string. *)
C13_NonEmptyCategoryTotal ==
    (fout.fn = "get_facts" /\ fout.status = 200 /\ fin.category # "") =>
        LET passing == {k \in 1..Len(fin.facts) :
                            fin.category = NoneStr
                                \/ fin.facts[k].category = fin.category}
        IN  /\ fout.body.total = Cardinality(passing)
            /\ Len(fout.body.items)
                   = IF fin.limit < fout.body.total THEN fin.limit
                     ELSE fout.body.total

(* C13, whatever the category: the page holds min(limit, total) items. *)
C13_PageLength ==
    (fout.fn = "get_facts" /\ fout.status = 200) =>
        Len(fout.body.items)
            = IF fin.limit < fout.body.total THEN fin.limit
              ELSE fout.body.total

(* C13 witness: three stored entries, two of the requested category, and a  *)
(* page of one.                                                             *)
C13_Witness ==
    /\ fout.fn = "get_facts"
    /\ fin.category = "diet"
    /\ fin.limit = LimitMin
    /\ Len(fin.facts) = 3
    /\ fout.status = 200
    /\ fout.body.total = 2
    /\ Len(fout.body.items) = 1

(* C14 (SpecFacts): the items get_facts returns are in non-increasing order *)
(* of their parsed learned_at, whatever the stored order; an item whose     *)
(* learned_at is absent or does not parse (returned as datetime.min) has    *)
(* only such items after it; and no ledger of such entries makes a call     *)
(* with a limit in range fail.                                              *)
C14_NewestFirst ==
    fout.fn = "get_facts" =>
        /\ fin.limit \in LimitMin..LimitMax => fout.status = 200
        /\ fout.status = 200 =>
            \A i, j \in 1..Len(fout.body.items) :
                i < j =>
                    /\ fout.body.items[i].learned_at
                           >= fout.body.items[j].learned_at
                    /\ fout.body.items[i].learned_at = DatetimeMin
                           => fout.body.items[j].learned_at = DatetimeMin

(* C14 witness: stored oldest first behind an entry without learned_at,     *)
(* returned newest first with that entry last.                              *)
C14_Witness ==
    /\ fout.fn = "get_facts"
    /\ fin.category = NoneStr
    /\ Len(fin.facts) = 3
    /\ fin.facts[1].learned_at = NoLearnedAt
    /\ fin.facts[2].learned_at = TsStr(1)
    /\ fin.facts[3].learned_at = TsStr(2)
    /\ fout.status = 200
    /\ Len(fout.body.items) = 3
    /\ fout.body.items[1].learned_at = 2
    /\ fout.body.items[3].learned_at = DatetimeMin

(* C18 (SpecFacts): get_facts parses a stored learned_at with fractional    *)
(* seconds: of a ledger whose entries all carry a timestamp, with or        *)
(* without a fraction, no item comes back as datetime.min and the newest    *)
(* instant comes first.                                                     *)
C18_FractionalSecondsParsed ==
    (/\ fout.fn = "get_facts"
     /\ fout.status = 200
     /\ \A k \in 1..Len(fin.facts) :
            fin.facts[k].learned_at.kind \in {"ts", "frac"}) =>
        /\ \A k \in 1..Len(fout.body.items) :
                fout.body.items[k].learned_at # DatetimeMin
        /\ fout.body.total >= 1 =>
                \A k \in 1..Len(fin.facts) :
                    (fin.category = NoneStr
                        \/ fin.facts[k].category = fin.category) =>
                        fout.body.items[1].learned_at
                            >= fin.facts[k].learned_at.t

----------------------------------------------------------------------------
(* get_streaks on its own: the stored ledger and the day of the call are    *)
(* drawn at the start.                                                      *)

MaxAge == 8
MaxWeekLedger == 2

(* The day of the call: late enough for an entry MaxAge days old. *)
TodaysIn == {MaxAge, MaxAge + 1}

(* The first and the last instant of every day up to the day after the call. *)
WeekStampsIn ==
    {TsStr(d * UnitsPerDay + h) : d \in 0..(MaxAge + 2), h \in {0, UnitsPerDay - 1}}

WeekLearnedAtsIn ==
    WeekStampsIn \cup {FracStr(MaxAge * UnitsPerDay), NoLearnedAt, BadLearnedAt}

WeekEntriesIn ==
    {[NoItem EXCEPT !.content = "a", !.learned_at = l] : l \in WeekLearnedAtsIn}

WeekLedgersIn == UNION {[1..n -> WeekEntriesIn] : n \in 0..MaxWeekLedger}

InitWeek ==
    /\ users = FreshTable
    /\ txn = NoTxn(FreshTable)
    /\ req = [r \in Reqs |-> Blank]
    /\ clock = UnitsPerDay
    /\ tz = 0
    /\ snap = FreshTable
    /\ appended = [u \in UserIds |-> 0]
    /\ fin \in [fn : {"get_streaks"}, facts : WeekLedgersIn, today : TodaysIn,
                row : {NoRow}]
    /\ fout = NoResult

ApplyWeek ==
    /\ fin.fn = "get_streaks"
    /\ fout = NoResult
    /\ LET row == [fin.row EXCEPT !.facts_learned = json_dumps(fin.facts)]
           res == get_streaks_response(row, fin.today)
       IN  fout' = [fn |-> "get_streaks", status |-> res.status,
                    detail |-> res.detail, body |-> res.body]
    /\ UNCHANGED <<users, txn, req, clock, tz, snap, appended, fin>>

NextWeek == ApplyWeek

SpecWeek == InitWeek /\ [][NextWeek]_vars

(* Days between the date of a stored timestamp and the day of the call. *)
AgeInDays(l, tday) == tday - DateOf(l.t)

(* C15 (SpecWeek): get_streaks returns 200 and facts_this_week is the       *)
(* number of ledger entries whose learned_at is a timestamp, with or        *)
(* without fractional seconds, of a calendar date 0 to 6 days before the    *)
(* day of the call; absent and unparsable values are not counted; an entry  *)
(* alone in the ledger counts when it is 6 days old and does not when it is *)
(* 7 or 8 days old.                                                         *)
C15_WeekWindow ==
    fout.fn = "get_streaks" =>
        LET counted == {k \in 1..Len(fin.facts) :
                            /\ fin.facts[k].learned_at.kind \in {"ts", "frac"}
                            /\ AgeInDays(fin.facts[k].learned_at, fin.today)
                                   \in 0..6}
        IN  /\ fout.status = 200
            /\ fout.body.facts_this_week = Cardinality(counted)
            /\ (Len(fin.facts) = 1
                    /\ fin.facts[1].learned_at.kind \in {"ts", "frac"}) =>
                LET age == AgeInDays(fin.facts[1].learned_at, fin.today)
                IN  /\ age = 6 => fout.body.facts_this_week = 1
                    /\ age \in {7, 8} => fout.body.facts_this_week = 0

(* C15 for ledgers whose learned_at values are second-precision timestamps, *)
(* absent or unparsable text: there it holds.                               *)
C15_SecondPrecisionWindow ==
    (/\ fout.fn = "get_streaks"
     /\ \A k \in 1..Len(fin.facts) : fin.facts[k].learned_at.kind # "frac") =>
        LET counted == {k \in 1..Len(fin.facts) :
                            /\ fin.facts[k].learned_at.kind = "ts"
                            /\ AgeInDays(fin.facts[k].learned_at, fin.today)
                                   \in 0..6}
        IN  /\ fout.status = 200
            /\ fout.body.facts_this_week = Cardinality(counted)
            /\ (Len(fin.facts) = 1 /\ fin.facts[1].learned_at.kind = "ts") =>
                LET age == AgeInDays(fin.facts[1].learned_at, fin.today)
                IN  /\ age = 6 => fout.body.facts_this_week = 1
                    /\ age \in {7, 8} => fout.body.facts_this_week = 0

(* C15 witness: one entry 6 days old and one 7 days old; one is counted. *)
C15_Witness ==
    /\ fout.fn = "get_streaks"
    /\ Len(fin.facts) = 2
    /\ fin.facts[1].learned_at.kind = "ts"
    /\ fin.facts[2].learned_at.kind = "ts"
    /\ AgeInDays(fin.facts[1].learned_at, fin.today) = 6
    /\ AgeInDays(fin.facts[2].learned_at, fin.today) = 7
    /\ fout.status = 200
    /\ fout.body.facts_this_week = 1

----------------------------------------------------------------------------
(* C16 (Spec): in every reachable state, a user whose total_facts_count is  *)
(* 0 has current_streak 0, longest_streak 0, an empty ledger and no         *)
(* last_activity_date; and a user for whom an add_fact has returned 200     *)
(* has current_streak >= 1 and a last_activity_date.                        *)
C16_FreshAndActiveRows ==
    \A u \in UserIds :
        /\ users[u].total_facts_count = 0 =>
                /\ users[u].current_streak = 0
                /\ users[u].longest_streak = 0
                /\ Ledger(users, u) = <<>>
                /\ users[u].last_activity_date = NullDate
        /\ appended[u] >= 1 =>
                /\ users[u].current_streak >= 1
                /\ users[u].last_activity_date.kind = "ymd"

(* C16 witness: one user with a fact, the other still fresh after an       *)
(* add_fact for it failed in the store at the commit.                       *)
C16_Witness ==
    \E u, v \in UserIds, r \in Reqs :
        /\ appended[u] = 1
        /\ users[u].current_streak >= 1
        /\ users[v].total_facts_count = 0
        /\ AddFactDone(r) /\ req[r].uid = v /\ req[r].status = 500
        /\ req[r].at = "commit"

----------------------------------------------------------------------------
(* C17 (SpecConc): no step lowers the stored total_facts_count of a user,   *)
(* however the add_fact calls for that user overlap.                        *)
C17_TotalNeverDecreases ==
    [][\A u \in UserIds :
            users'[u].total_facts_count >= users[u].total_facts_count]_vars

----------------------------------------------------------------------------
(* Overlapping calls with the handlers kept running: each handler runs on   *)
(* a thread of the pool, so a handler that can take its next step takes it; *)
(* a statement waiting for the write lock either gets it or, after the      *)
(* connection's timeout (sqlite3.connect's default, database.py line 17),   *)
(* raises.                                                                  *)
Handler(r) ==
    \/ EnsureUserAccess(r)
    \/ AddFactSelect(r)
    \/ AddFactStamp(r)
    \/ SaveFacts(r)
    \/ UpdateCounters(r)
    \/ Commit(r)
    \/ BusyTimeout(r)

(* The clock stands still here: no step waits for it. *)
NextConcFair ==
    \/ ConcAddFact
    \/ ConcSteps

SpecConcFair ==
    Init /\ [][NextConcFair]_vars /\ \A r \in Reqs : WF_vars(Handler(r))

InFlight(r) == req[r].pc \notin {"idle", "done"}

(* C19 (SpecConcFair): every add_fact that has started returns, whatever    *)
(* other add_fact calls for the same user do meanwhile (so no two of them   *)
(* block each other for ever); and a call that gave up waiting for the      *)
(* write lock another call held has returned an error, with no body.        *)
C19_AddFactReturns ==
    /\ \A r \in Reqs : InFlight(r) ~> Done(r)
    /\ [](\A r \in Reqs :
            (Done(r) /\ req[r].cause = "Busy") =>
                (req[r].status = 500 /\ req[r].body = NoBody))

(* What the caller is told: the status and the detail of the response. *)
Reported(r) == <<req[r].status, req[r].detail>>

(* Lines 101-103: what add_fact answers to any sqlite3.Error. *)
StorageFailureReport == <<500, "Database error">>

(* C19 (SpecConc): an add_fact that gave up waiting for the write lock      *)
(* another add_fact held has failed with a Busy/Unavailable error: it       *)
(* wrote nothing, returned no body, and what it told its caller is not      *)
(* what add_fact tells of a storage failure.                                *)
C19_BusyIsReported ==
    \A r \in Reqs :
        (Done(r) /\ req[r].cause = "Busy") =>
            /\ req[r].status # 200
            /\ req[r].body = NoBody
            /\ Reported(r) # StorageFailureReport

(* C19 witness: a call has given up on the lock while the call holding it   *)
(* is still at work.                                                        *)
C19_Witness ==
    \E r, q \in Reqs :
        /\ Done(r) /\ req[r].cause = "Busy" /\ req[r].at = "save"
        /\ txn.owner = q
        /\ req[q].pc \in {"update", "commit"}

----------------------------------------------------------------------------
(* The causes of failure the routes can meet. *)
ErrorCauses ==
    {"NotFound", "Forbidden", "ValidationError", "InvalidArgument",
     "StorageFailure", "Busy"}

(* C20 (SpecConc): two calls that failed for different causes were told     *)
(* different things: no two of the causes share a status and detail.        *)
C20_DistinctErrorKinds ==
    \A r, q \in Reqs :
        (/\ Done(r) /\ Done(q)
         /\ req[r].cause \in ErrorCauses
         /\ req[q].cause \in ErrorCauses
         /\ req[r].cause # req[q].cause) =>
            Reported(r) # Reported(q)

----------------------------------------------------------------------------
(* compute_new_streak on its own, over every value the last_activity_date   *)
(* column can hand back.                                                    *)

LastActivityRawIn == LastActivityIn \cup {NumDate, NumZero}

InitStreakRaw ==
    /\ users = FreshTable
    /\ txn = NoTxn(FreshTable)
    /\ req = [r \in Reqs |-> Blank]
    /\ clock = UnitsPerDay
    /\ tz = 0
    /\ snap = FreshTable
    /\ appended = [u \in UserIds |-> 0]
    /\ fin \in [fn : {"compute_new_streak"}, current_streak : StreakIn,
                longest_streak : StreakIn,
                last_activity_raw : LastActivityRawIn, today : 1..MaxDay]
    /\ fout = NoResult

SpecStreakRaw == InitStreakRaw /\ [][NextStreak]_vars

(* C21 (SpecStreakRaw): compute_new_streak returns a result for every       *)
(* stored last_activity value, and for every value that is not a            *)
(* well-formed date the result is the one it returns for an absent value,   *)
(* with new_current = 1.                                                    *)
C21_StreakNeverFails ==
    fout.fn = "compute_new_streak" =>
        /\ fout.outcome = "return"
        /\ fin.last_activity_raw.kind # "ymd" =>
            LET absent == compute_new_streak(fin.current_streak,
                              fin.longest_streak, NullDate, fin.today)
            IN  /\ fout.new_current = 1
                /\ fout.new_current = absent.new_current
                /\ fout.new_longest = absent.new_longest
                /\ fout.new_last_activity = absent.new_last_activity

(* C21, the values for which it holds: NULL, every text and the number 0.   *)
C21_TextNeverFails ==
    (fout.fn = "compute_new_streak" /\ fin.last_activity_raw # NumDate) =>
        /\ fout.outcome = "return"
        /\ fin.last_activity_raw.kind # "ymd" =>
            LET absent == compute_new_streak(fin.current_streak,
                              fin.longest_streak, NullDate, fin.today)
            IN  /\ fout.new_current = 1
                /\ fout.new_longest = absent.new_longest
                /\ fout.new_last_activity = absent.new_last_activity

----------------------------------------------------------------------------
(* C22 (SpecStreak): when the stored last_activity_date is a day after      *)
(* today, compute_new_streak returns new_current = 1, today as the new      *)
(* last_activity_date, and the larger of the stored longest_streak (0 when  *)
(* absent) and 1 as new_longest.                                            *)
C22_FutureDateResets ==
    (/\ fout.fn = "compute_new_streak"
     /\ fin.last_activity_raw.kind = "ymd"
     /\ fin.last_activity_raw.day > fin.today) =>
        /\ fout.outcome = "return"
        /\ fout.new_current = 1
        /\ fout.new_last_activity = strftime_ymd(fin.today)
        /\ fout.new_longest
               = (IF OrZero(fin.longest_streak) >= 1
                  THEN fin.longest_streak ELSE 1)

(* C22 witness: a streak of 3 whose last activity is dated tomorrow. *)
C22_Witness ==
    /\ fout.fn = "compute_new_streak"
    /\ fin.last_activity_raw = strftime_ymd(fin.today + 1)
    /\ fin.current_streak = MaxStreakIn
    /\ fin.longest_streak = MaxStreakIn
    /\ fout.new_current = 1
    /\ fout.new_longest = MaxStreakIn

----------------------------------------------------------------------------
(* get_facts on its own, over ledgers whose entries differ in category:     *)
(* none, the empty string, and two strings that differ in case only.        *)

MaxFilterLedger == 3

FilterCategories == {NoneStr, "", "diet", "Diet"}

FilterEntriesIn ==
    {[NoItem EXCEPT !.content = "a", !.category = c, !.learned_at = l] :
        c \in FilterCategories, l \in {TsStr(1), NoLearnedAt}}

FilterLedgersIn == UNION {[1..n -> FilterEntriesIn] : n \in 0..MaxFilterLedger}

InitFilter ==
    /\ users = FreshTable
    /\ txn = NoTxn(FreshTable)
    /\ req = [r \in Reqs |-> Blank]
    /\ clock = UnitsPerDay
    /\ tz = 0
    /\ snap = FreshTable
    /\ appended = [u \in UserIds |-> 0]
    /\ fin \in [fn : {"get_facts"}, facts : FilterLedgersIn,
                limit : {LimitMin, LimitMax}, category : FilterCategories]
    /\ fout = NoResult

SpecFilter == InitFilter /\ [][NextFacts]_vars

(* The stored entries whose category is the given string. *)
Matching(facts, category) ==
    {k \in 1..Len(facts) : facts[k].category = category}

(* C23 (SpecFilter): for every string given as category, get_facts counts   *)
(* exactly the stored entries whose category is that string and returns     *)
(* only such entries.                                                       *)
C23_ExactCategory ==
    (fout.fn = "get_facts" /\ fout.status = 200 /\ fin.category # NoneStr) =>
        /\ fout.body.total = Cardinality(Matching(fin.facts, fin.category))
        /\ \A k \in 1..Len(fout.body.items) :
                fout.body.items[k].category = fin.category

(* C23, the strings for which it holds: every non-empty one. *)
C23_NonEmptyExactCategory ==
    (/\ fout.fn = "get_facts" /\ fout.status = 200
     /\ fin.category \notin {NoneStr, ""}) =>
        /\ fout.body.total = Cardinality(Matching(fin.facts, fin.category))
        /\ \A k \in 1..Len(fout.body.items) :
                fout.body.items[k].category = fin.category

----------------------------------------------------------------------------
(* get_streaks on its own, over rows whose counters and date differ from    *)
(* one another.                                                             *)

StoredRowsIn ==
    {[NoRow EXCEPT !.current_streak = c, !.longest_streak = l,
                   !.total_facts_count = n, !.last_activity_date = d] :
        c \in 0..MaxStreakIn, l \in 0..MaxStreakIn, n \in 0..MaxStreakIn,
        d \in LastActivityIn}

InitStats ==
    /\ users = FreshTable
    /\ txn = NoTxn(FreshTable)
    /\ req = [r \in Reqs |-> Blank]
    /\ clock = UnitsPerDay
    /\ tz = 0
    /\ snap = FreshTable
    /\ appended = [u \in UserIds |-> 0]
    /\ fin \in [fn : {"get_streaks"},
                facts : {<<>>, <<[NoItem EXCEPT !.content = "a",
                            !.learned_at = TsStr(MaxAge * UnitsPerDay)]>>},
                today : {MaxAge}, row : StoredRowsIn]
    /\ fout = NoResult

SpecStats == InitStats /\ [][NextWeek]_vars

(* C24 (Spec): a get_streaks that returned 200 returned the user's stored   *)
(* current_streak, longest_streak, total_facts_count and                    *)
(* last_activity_date; and from the start of a get_streaks or get_facts     *)
(* call to its return, however it ends, the table is the one it started     *)
(* from.                                                                    *)
C24_ReadersPassThrough ==
    \A r \in Reqs :
        req[r].op \in {"get_streaks", "get_facts"} =>
            /\ users = snap
            /\ txn = NoTxn(users)
            /\ (Ok(r) /\ req[r].op = "get_streaks") =>
                LET row == users[req[r].uid]
                IN  /\ req[r].body.current_streak = row.current_streak
                    /\ req[r].body.longest_streak = row.longest_streak
                    /\ req[r].body.total_facts_count = row.total_facts_count
                    /\ req[r].body.last_activity_date = row.last_activity_date

(* C24 witness: the stats of a user with a streak of two days, read a day   *)
(* after the last activity.                                                 *)
C24_Witness ==
    \E r \in Reqs :
        /\ Ok(r) /\ req[r].op = "get_streaks"
        /\ req[r].body.current_streak = 2
        /\ req[r].body.total_facts_count = 2
        /\ req[r].body.last_activity_date.kind = "ymd"
        /\ req[r].body.last_activity_date.day < today

(* C24, the four fields one by one (SpecStats): whatever the stored         *)
(* counters and date are, get_streaks returns each of them as stored.       *)
C24_StatsAsStored ==
    fout.fn = "get_streaks" =>
        /\ fout.status = 200
        /\ fout.body.current_streak = fin.row.current_streak
        /\ fout.body.longest_streak = fin.row.longest_streak
        /\ fout.body.total_facts_count = fin.row.total_facts_count
        /\ fout.body.last_activity_date = fin.row.last_activity_date

----------------------------------------------------------------------------
(* The migration of the users table.  fin is the table the start-up finds   *)
(* (the gamification columns it already has, whether a row named           *)
(* migration_test_user is in it, and the journal mode of the database       *)
(* file); fout is the table now, the runs of migration_standalone.py in     *)
(* flight, and the last run that ended.                                     *)

MaxRuns == 3

GamificationColumns ==
    {"facts_learned", "current_streak", "last_activity_date",
     "longest_streak", "total_facts_count"}

(* migration_standalone.py lines 51-57: the columns in the order the loop   *)
(* of line 67 takes them.                                                   *)
columns_to_add ==
    <<"facts_learned", "current_streak", "last_activity_date",
      "longest_streak", "total_facts_count">>

(* database.py lines 45-49: ALTER TABLE ADD COLUMN only when PRAGMA         *)
(* table_info does not list the column.                                     *)
add_column_if_missing(existing, column_name) ==
    IF column_name \notin existing THEN existing \cup {column_name}
    ELSE existing

RECURSIVE add_columns(_, _)
add_columns(existing, todo) ==
    IF todo = {} THEN existing
    ELSE LET c == CHOOSE x \in todo : TRUE
         IN  add_columns(add_column_if_missing(existing, c), todo \ {c})

(* The journal mode stored in the database file: sqlite's default, or WAL   *)
(* once a run of migration_standalone.py has switched it (line 47).         *)
JournalModes == {"delete", "wal"}

(* The processes that may run migration_standalone.py at the same time. *)
Migrators == {"A", "B"}

(* A run of migration_standalone.py: existing is what its PRAGMA            *)
(* table_info returned, idx the position of its loop in columns_to_add.     *)
(* overlapped is history: another run was in flight during this one.        *)
NoMigrator == [pc |-> "idle", existing |-> {}, idx |-> 0, overlapped |-> FALSE]

OthersInFlight(m) == \E o \in Migrators \ {m} : fout.mig[o].pc # "idle"

InitMigrate ==
    /\ users = FreshTable
    /\ txn = NoTxn(FreshTable)
    /\ req = [r \in Reqs |-> Blank]
    /\ clock = UnitsPerDay
    /\ tz = 0
    /\ snap = FreshTable
    /\ appended = [u \in UserIds |-> 0]
    /\ fin \in [fn : {"migrate"}, columns : SUBSET GamificationColumns,
                test_user : BOOLEAN, journal : JournalModes]
    /\ fout = [fn |-> "migrate", by |-> "none", outcome |-> "none",
               before |-> fin.columns, overlapped |-> FALSE,
               columns |-> fin.columns, test_user |-> fin.test_user,
               journal |-> fin.journal,
               next_id |-> (IF fin.test_user THEN MissingId + 1 ELSE MissingId),
               runs |-> 0,
               mig |-> [m \in Migrators |-> NoMigrator]]

(* database.py lines 20-37, run when the module is imported: init_db        *)
(* creates the users table if it is missing and calls                       *)
(* _migrate_add_gamification_columns, a name the module binds only at line  *)
(* 51, after the call of line 37: NameError, before any ALTER TABLE.        *)
ImportDatabase ==
    /\ fout.fn = "migrate"
    /\ fout.runs < MaxRuns
    /\ fout' = [fout EXCEPT !.by = "init_db", !.outcome = "NameError",
                            !.before = fout.columns, !.overlapped = FALSE,
                            !.runs = fout.runs + 1]
    /\ UNCHANGED <<users, txn, req, clock, tz, snap, appended, fin>>

(* migration_add_gamification_columns.py: line 10 imports database, which   *)
(* raises as above before add_gamification_columns is even defined.         *)
RunMigrationScript ==
    /\ fout.fn = "migrate"
    /\ fout.runs < MaxRuns
    /\ fout' = [fout EXCEPT !.by = "migration_add_gamification_columns",
                            !.outcome = "NameError",
                            !.before = fout.columns, !.overlapped = FALSE,
                            !.runs = fout.runs + 1]
    /\ UNCHANGED <<users, txn, req, clock, tz, snap, appended, fin>>

(* migration_standalone.py lines 15-46: the file is there; connect. *)
StandaloneStart(m) ==
    /\ fout.fn = "migrate"
    /\ fout.runs < MaxRuns
    /\ fout.mig[m].pc = "idle"
    /\ fout' = [fout EXCEPT
            !.runs = fout.runs + 1,
            !.mig = [o \in Migrators |->
                IF o = m
                THEN [pc |-> "journal", existing |-> {}, idx |-> 0,
                      overlapped |-> OthersInFlight(m)]
                ELSE IF fout.mig[o].pc # "idle"
                THEN [fout.mig[o] EXCEPT !.overlapped = TRUE]
                ELSE fout.mig[o]]]
    /\ UNCHANGED <<users, txn, req, clock, tz, snap, appended, fin>>

(* Line 47, PRAGMA journal_mode=WAL: nothing to do on a file already in WAL *)
(* mode; a file in sqlite's default mode is switched, for good.             *)
StandaloneJournal(m) ==
    /\ fout.fn = "migrate"
    /\ fout.mig[m].pc = "journal"
    /\ fout' = [fout EXCEPT !.journal = "wal", !.mig[m].pc = "table_info"]
    /\ UNCHANGED <<users, txn, req, clock, tz, snap, appended, fin>>

(* Line 47 while another run is switching the same file out of the default  *)
(* mode: the switch needs the file to itself and raises "database is        *)
(* locked" at once; lines 104-106 print it and the run returns False. On a  *)
(* WAL file the statement changes nothing and cannot be refused, and every  *)
(* later statement waits for the lock (timeout=30.0, line 46), which the    *)
(* other run gives up after each ALTER TABLE.                               *)
StandaloneLocked(m) ==
    /\ fout.fn = "migrate"
    /\ fout.mig[m].pc = "journal"
    /\ fout.journal = "delete"
    /\ \E o \in Migrators \ {m} : fout.mig[o].pc = "journal"
    /\ fout' = [fout EXCEPT !.by = "migration_standalone",
                    !.outcome = "database is locked",
                    !.before = fout.columns,
                    !.overlapped = fout.mig[m].overlapped,
                    !.mig[m] = NoMigrator]
    /\ UNCHANGED <<users, txn, req, clock, tz, snap, appended, fin>>

(* Lines 48-65: PRAGMA table_info, read once for the whole run. *)
StandaloneTableInfo(m) ==
    /\ fout.fn = "migrate"
    /\ fout.mig[m].pc = "table_info"
    /\ fout' = [fout EXCEPT !.mig[m].pc = "alter",
                            !.mig[m].existing = fout.columns,
                            !.mig[m].idx = 1]
    /\ UNCHANGED <<users, txn, req, clock, tz, snap, appended, fin>>

(* Lines 67-82, one turn of the loop: a column of existing_columns is       *)
(* skipped; any other is added by an ALTER TABLE that takes effect at       *)
(* once, or, when the table has got the column since the PRAGMA, raises     *)
(* "duplicate column name" and the run returns False.                       *)
StandaloneAlter(m) ==
    /\ fout.fn = "migrate"
    /\ fout.mig[m].pc = "alter"
    /\ fout.mig[m].idx <= Len(columns_to_add)
    /\ LET column_name == columns_to_add[fout.mig[m].idx]
       IN  IF column_name \in fout.mig[m].existing
           THEN fout' = [fout EXCEPT !.mig[m].idx = @ + 1]
           ELSE IF column_name \in fout.columns
           THEN fout' = [fout EXCEPT !.by = "migration_standalone",
                            !.outcome = "duplicate column name",
                            !.before = fout.mig[m].existing,
                            !.overlapped = fout.mig[m].overlapped,
                            !.mig[m] = NoMigrator]
           ELSE fout' = [fout EXCEPT !.columns = @ \cup {column_name},
                            !.mig[m].idx = @ + 1]
    /\ UNCHANGED <<users, txn, req, clock, tz, snap, appended, fin>>

(* Lines 84-102: the loop is over, the run returns True; the script goes    *)
(* on to test_migration (lines 167-169).                                    *)
StandaloneCommit(m) ==
    /\ fout.fn = "migrate"
    /\ fout.mig[m].pc = "alter"
    /\ fout.mig[m].idx > Len(columns_to_add)
    /\ fout' = [fout EXCEPT !.by = "migration_standalone", !.outcome = "ok",
                    !.before = fout.mig[m].existing,
                    !.overlapped = fout.mig[m].overlapped,
                    !.mig[m].pc = "test"]
    /\ UNCHANGED <<users, txn, req, clock, tz, snap, appended, fin>>

(* Lines 114-164, one transaction: any row named migration_test_user is     *)
(* deleted, one is inserted (taking the next id), read and deleted again.   *)
TestMigration(m) ==
    /\ fout.fn = "migrate"
    /\ fout.mig[m].pc = "test"
    /\ fout' = [fout EXCEPT !.test_user = FALSE, !.next_id = @ + 1,
                            !.mig[m] = NoMigrator]
    /\ UNCHANGED <<users, txn, req, clock, tz, snap, appended, fin>>

RunStandaloneMigration ==
    \E m \in Migrators :
        \/ StandaloneStart(m)
        \/ StandaloneJournal(m)
        \/ StandaloneLocked(m)
        \/ StandaloneTableInfo(m)
        \/ StandaloneAlter(m)
        \/ StandaloneCommit(m)
        \/ TestMigration(m)

NextMigrate ==
    \/ ImportDatabase
    \/ RunMigrationScript
    \/ RunStandaloneMigration

SpecMigrate == InitMigrate /\ [][NextMigrate]_vars

(* C25 (SpecMigrate): after init_db has run at start-up, from a table with  *)
(* any of the five columns, the run did not fail, the table has all five,   *)
(* and the columns it had before are all still there; a run on a table      *)
(* that had all five changed nothing.                                       *)
C25_MigrationIdempotent ==
    (fout.fn = "migrate" /\ fout.by = "init_db") =>
        /\ fout.outcome = "ok"
        /\ fout.columns = GamificationColumns
        /\ fout.before \subseteq fout.columns
        /\ fout.before = GamificationColumns => fout.columns = fout.before

(* C25, for the one migration that runs (migration_standalone.py), when no  *)
(* other run of it is in flight at the same time.                           *)
C25_StandaloneIdempotent ==
    (/\ fout.fn = "migrate"
     /\ fout.by = "migration_standalone"
     /\ ~fout.overlapped) =>
        /\ fout.outcome = "ok"
        /\ fout.columns = add_columns(fout.before, GamificationColumns)
        /\ fout.columns = GamificationColumns
        /\ fout.before = GamificationColumns => fout.columns = fout.before

(* C25 for migration_standalone.py, runs at the same time included. *)
C25_StandaloneNeverFails ==
    (fout.fn = "migrate" /\ fout.by = "migration_standalone") =>
        fout.outcome = "ok"

----------------------------------------------------------------------------
(* Calls one after the other on a server whose local time is UTC and whose  *)
(* clock stands still while a call runs: the two clock readings of add_fact *)
(* (datetime.utcnow() at line 76, date.today() inside compute_new_streak)   *)
(* then fall on the same day.                                               *)

InitUtc == Init /\ tz = 0

TickIdle == AllIdle /\ Tick

NextUtc ==
    \/ SeqAddFact
    \/ SeqGetFacts
    \/ SeqGetStreaks
    \/ Steps
    \/ TickIdle

SpecUtc == InitUtc /\ [][NextUtc]_vars

(* The calendar dates of the learned_at of the stored entries. *)
ActiveDays(tbl, u) ==
    {DateOf(Ledger(tbl, u)[k].learned_at.t) : k \in 1..Len(Ledger(tbl, u))}

(* The number of consecutive days of the set that end at day d. *)
RECURSIVE RunEndingAt(_, _)
RunEndingAt(days, d) ==
    IF d \notin days THEN 0 ELSE 1 + RunEndingAt(days, d - 1)

(* C26 (Spec): for a user with at least one fact, the stored current_streak *)
(* is the number of consecutive calendar days, ending at the stored         *)
(* last_activity_date, on each of which the ledger has an entry.            *)
C26_StreakIsRunOfDays ==
    \A u \in UserIds :
        appended[u] >= 1 =>
            /\ users[u].last_activity_date.kind = "ymd"
            /\ users[u].current_streak
                   = RunEndingAt(ActiveDays(users, u),
                                 users[u].last_activity_date.day)

(* C27 (Spec): after an add_fact that returned 200 the stored              *)
(* last_activity_date is the calendar date of the learned_at of the entry   *)
(* the call appended.                                                       *)
C27_OneClockReading ==
    \A r \in Reqs :
        (AddFactDone(r) /\ Ok(r)) =>
            LET new == Ledger(users, req[r].uid)
            IN  users[req[r].uid].last_activity_date
                    = strftime_ymd(DateOf(new[Len(new)].learned_at.t))

----------------------------------------------------------------------------
(* C28 (SpecConc): no step lowers the stored longest_streak of a user, as   *)
(* the maximum of the current_streak values committed so far never goes     *)
(* down, however the add_fact calls for that user overlap.                  *)
C28_LongestNeverDecreases ==
    [][\A u \in UserIds :
            /\ users'[u].longest_streak >= users[u].longest_streak
            /\ users'[u].longest_streak >= users'[u].current_streak]_vars

----------------------------------------------------------------------------
(* A get_streaks overlapping an add_fact for the same user, each on its own *)
(* thread and connection.  One append at a time is let in between two       *)
(* moments of rest, so that snap is the table before it and users the       *)
(* table after it; the clock runs on meanwhile.                             *)

LastReq == CHOOSE r \in Reqs : \A q \in Reqs : q <= r

RwAddFact ==
    /\ users = snap
    /\ TotalStored < MaxFacts
    /\ AddFactCall(FirstReq, "alice", 1, ConcPayload(FirstReq))

RwGetStreaks == GetStreaksCall(LastReq, "alice", 1)

RwSteps ==
    \E r \in Reqs :
        \/ EnsureUserAccess(r)
        \/ AddFactSelect(r)
        \/ AddFactStamp(r)
        \/ SaveFacts(r)
        \/ UpdateCounters(r)
        \/ Commit(r)
        \/ StorageError(r)
        \/ GetStreaksSelect(r)
        \/ GetStreaksWeek(r)
        \/ Return(r)

NextReadWrite ==
    \/ RwAddFact
    \/ RwGetStreaks
    \/ RwSteps
    \/ ConcTick

SpecReadWrite == Init /\ [][NextReadWrite]_vars

(* C29 (SpecReadWrite): what a get_streaks returned with 200 is the stats   *)
(* of the user's row as it was committed before the overlapping add_fact,   *)
(* or as it is committed after it, counted on a day the server's clock      *)
(* showed: all five values from the same side.                              *)
C29_ConsistentSnapshot ==
    \A r \in Reqs :
        (Ok(r) /\ req[r].op = "get_streaks") =>
            \E tbl \in {snap, users}, tday \in 0..DateOf(MaxTimeConc + 1) :
                req[r].body = get_streaks_body(select_row(tbl, req[r].uid), tday)

(* C29 witness: a get_streaks that began before the append was committed    *)
(* and returned the row after it, while the add_fact has not yet returned.  *)
C29_Witness ==
    \E r, w \in Reqs :
        /\ Ok(r) /\ req[r].op = "get_streaks"
        /\ AddFactDone(w) /\ Ok(w)
        /\ snap[1].total_facts_count = 0
        /\ req[r].body.total_facts_count = 1
        /\ req[r].body.facts_this_week = 1

----------------------------------------------------------------------------
(* C30 (Spec): a get_facts from a caller who does not own the target user,  *)
(* or for a user id that is not in the table, ends with 403 or 404 as the   *)
(* access guard decides, whatever the limit, storage failures aside.        *)
C30_GuardBeforeLimit ==
    \A r \in Reqs :
        LET st == ensure_user_access(users, req[r].uid, req[r].caller)
        IN  (/\ Done(r)
             /\ req[r].op = "get_facts"
             /\ req[r].cause # "StorageFailure"
             /\ st # 200) => req[r].status = st

(* C30 with the limit inside 1..500: the guard's answer is the call's.      *)
C30_GuardWithinRange ==
    \A r \in Reqs :
        LET st == ensure_user_access(users, req[r].uid, req[r].caller)
        IN  (/\ Done(r)
             /\ req[r].op = "get_facts"
             /\ req[r].cause # "StorageFailure"
             /\ ~limit_rejected(req[r].limit)
             /\ st # 200) => req[r].status = st

----------------------------------------------------------------------------
(* C31 (Spec): when an add_fact for user U has returned 200, the table has  *)
(* the same ids as before the call, U's username is what it was, and every  *)
(* other user's row is what it was: only U's facts_learned,                 *)
(* total_facts_count, current_streak, longest_streak and last_activity_date *)
(* may differ.                                                              *)
C31_OnlyTargetRowChanges ==
    \A r \in Reqs :
        (AddFactDone(r) /\ Ok(r)) =>
            /\ DOMAIN users = DOMAIN snap
            /\ users[req[r].uid].username = snap[req[r].uid].username
            /\ \A u \in DOMAIN users \ {req[r].uid} : users[u] = snap[u]

(* C31 witness: an add_fact for user 1 has returned 200 and changed user    *)
(* 1's row, while user 2 already holds a fact and a streak of its own.      *)
C31_Witness ==
    \E r \in Reqs :
        /\ AddFactDone(r) /\ Ok(r)
        /\ req[r].uid = 1
        /\ users[1] # snap[1]
        /\ users[1].total_facts_count = 1
        /\ users[2].total_facts_count = 1
        /\ users[2].current_streak = 1

----------------------------------------------------------------------------
(* One owner adding facts to her own ledger, one call after the other, for  *)
(* up to MaxRepeat entries: appends to ledgers that already hold two        *)
(* entries, and same-day repeats on a streak of two.                        *)

MaxRepeat == 3

RepeatAddFact ==
    \E p \in {q \in Payloads : FactCreateValid(q)} :
        AllIdle /\ Stored(1) < MaxRepeat /\ AddFactCall(FirstReq, "alice", 1, p)

RepeatSteps ==
    \E r \in Reqs :
        \/ EnsureUserAccess(r)
        \/ AddFactSelect(r)
        \/ AddFactStamp(r)
        \/ SaveFacts(r)
        \/ UpdateCounters(r)
        \/ Commit(r)
        \/ StorageError(r)
        \/ Return(r)

NextRepeat ==
    \/ RepeatAddFact
    \/ RepeatSteps
    \/ Tick

SpecRepeat == Init /\ [][NextRepeat]_vars

(* The step by which add_fact call r returns 200: its commit. *)
Succeeds(r) ==
    /\ req[r].op = "add_fact"
    /\ req[r].pc = "commit"
    /\ req'[r].pc = "done"
    /\ req'[r].status = 200

(* C4 (SpecConc): every add_fact that returns 200 adds one to the stored    *)
(* total_facts_count, and when the stored last_activity_date already is     *)
(* the day the call writes (an earlier call succeeded that calendar day)    *)
(* it leaves the stored current_streak as it was.                           *)
C4_EachCallCounts ==
    [][\A r \in Reqs :
        Succeeds(r) =>
            LET u == req[r].uid
            IN  /\ users'[u].total_facts_count = users[u].total_facts_count + 1
                /\ (users[u].last_activity_date = users'[u].last_activity_date
                        => users'[u].current_streak = users[u].current_streak)]_vars

(* C4 for calls made one after the other (SpecRepeat): a same-day repeat on *)
(* a streak of two that days of activity built.                             *)
C4_RepeatWitness ==
    \E r \in Reqs :
        /\ AddFactDone(r) /\ Ok(r)
        /\ snap[req[r].uid].last_activity_date
               = users[req[r].uid].last_activity_date
        /\ snap[req[r].uid].current_streak = 2
        /\ users[req[r].uid].total_facts_count = 3

(* C10 (SpecConc): by every add_fact that returns 200 the stored list       *)
(* becomes the list stored just before with the call's one new entry added  *)
(* at the end.                                                              *)
C10_EveryAppendKeepsTheList ==
    [][\A r \in Reqs :
        Succeeds(r) =>
            Ledger(users', req[r].uid)
                = Append(Ledger(users, req[r].uid), req[r].new_item)]_vars

(* C10 for calls made one after the other (SpecRepeat): a third entry       *)
(* appended to a ledger of two unlike entries.                              *)
C10_RepeatWitness ==
    \E r \in Reqs :
        /\ AddFactDone(r) /\ Ok(r)
        /\ Len(Ledger(users, req[r].uid)) = 3
        /\ Ledger(snap, req[r].uid)[1] # Ledger(snap, req[r].uid)[2]

====
